---- MODULE Spec2Model ----
(***************************************************************************)
(* Model of neural_tangents/utils/kernel.py: the `Marginalisation` IntEnum *)
(* and the `Kernel` namedtuple with its constructor (`__new__`), its       *)
(* `_replace` and its `reverse`.                                           *)
(*                                                                         *)
(* Python values are represented per field:                                *)
(*   - `marginal` / `cross` : [type, value], type "Marginalisation" for an *)
(*     enumeration member and "int" for a plain ordinal;                   *)
(*   - arrays (`var1`, `nngp`, `var2`, `ntk`, masks) : [isNone, axes]; an  *)
(*     array is identified by the order of its named axes, so that a       *)
(*     transposition is a permutation of `axes`;                           *)
(*   - shapes : tuples of dimension sizes; booleans : BOOLEAN.             *)
(*                                                                         *)
(* The initial states are the Kernels the constructor returns; every step  *)
(* is a `_replace` or a `reverse` called on the Kernel last returned.      *)
(***************************************************************************)
EXTENDS Integers, Sequences, FiniteSets, TLC

VARIABLES
  self,          \* the receiver of the last call, as it is after the call
  ret,           \* the Kernel returned by the last successful call
  kwargs,        \* the arguments of the last call, as the caller gave them
  op,            \* the last call: "construct", "replace" or "reverse"
  outcome,       \* "ok" when the last call returned, "raised" when it raised
  orig,          \* the Kernel returned by the last construction/replacement
  nrev,          \* number of reverse() calls that returned since `orig`
  lastMarginal,  \* the value last supplied for `marginal`, as given
  lastCross      \* the value last supplied for `cross`, as given

vars == <<self, ret, kwargs, op, outcome, orig, nrev, lastMarginal, lastCross>>

\* Cap on the counter of consecutive reverse() calls.
MaxReverse == 3

(***************************************************************************)
(* Marginalisation(enum.IntEnum)                                           *)
(***************************************************************************)
Member(n) == [type |-> "Marginalisation", value |-> n]
PlainInt(n) == [type |-> "int", value |-> n]

OVER_ALL == Member(0)
OVER_PIXELS_AND_POINTS == Member(1)
OVER_PIXELS_swapped == Member(3)
OVER_PIXELS == Member(2)
OVER_POINTS == Member(3)
NO == Member(4)

Marginalisation ==
  {OVER_ALL, OVER_PIXELS_AND_POINTS, OVER_PIXELS, OVER_POINTS, NO}

\* isinstance(v, Marginalisation)
isinstance_Marginalisation(v) == v.type = "Marginalisation"

\* int(v) for an IntEnum member or an int
int(v) == PlainInt(v.value)

\* IntEnum members compare as the ints they are, with each other and with
\* plain ints.
lt(a, b) == a.value < b.value
eq(a, b) == a.value = b.value

(***************************************************************************)
(* Kernel(namedtuple)                                                      *)
(***************************************************************************)
Fields ==
  {"var1", "nngp", "var2", "ntk", "is_gaussian", "is_reversed", "marginal",
   "cross", "shape1", "shape2", "x1_is_x2", "is_input", "mask1", "mask2"}

None == [isNone |-> TRUE, axes |-> <<>>]
ndarray(a) == [isNone |-> FALSE, axes |-> a]

\* The length of a named axis: batch_size_1 = 2, batch_size_2 = 3, and the
\* spatial dimensions H = 4, W = 5, D = 6.
Size(axis) ==
  CASE axis = "N1" -> 2
    [] axis = "N2" -> 3
    [] axis \in {"H1", "H2"} -> 4
    [] axis \in {"W1", "W2"} -> 5
    [] axis \in {"D1", "D2"} -> 6

\* mat.shape
Shape(mat) == [i \in DOMAIN mat.axes |-> Size(mat.axes[i])]

\* Kernel.__new__ with a validating slip: `is_reversed` forced to False
\* outside the regime in which it is meaningful.
__new__normalising(args) ==
  [f \in Fields |->
     IF f \in {"marginal", "cross"}
       THEN (IF isinstance_Marginalisation(args[f]) THEN int(args[f])
             ELSE args[f])
     ELSE IF f = "is_reversed"
       THEN args[f] /\ args.marginal.value >= 3 /\ args.cross.value >= 4
     ELSE args[f]]

\* Kernel.__new__: coerce `marginal` and `cross`, store the rest as given.
__new__(args) ==
  [f \in Fields |->
     IF f \in {"marginal", "cross"}
       THEN (IF isinstance_Marginalisation(args[f]) THEN int(args[f])
             ELSE args[f])
       ELSE args[f]]

\* namedtuple._replace: a new tuple, the named fields taken from kwds and
\* every other field from the receiver.
namedtuple_replace(k, kwds) ==
  [f \in Fields |-> IF f \in DOMAIN kwds THEN kwds[f] ELSE k[f]]

\* The loop of Kernel._replace over its keyword arguments.  The inputs of
\* the model carry enumeration members in `marginal` and `cross` only, the
\* two fields represented as [type, value].
CoerceKwargs(kwds) ==
  [f \in DOMAIN kwds |->
     IF f \in {"marginal", "cross"} /\ isinstance_Marginalisation(kwds[f])
       THEN int(kwds[f]) ELSE kwds[f]]

\* Kernel._replace without the cast.
_replace_uncoerced(k, kwds) == namedtuple_replace(k, kwds)

\* Kernel._replace that rebuilds the record from the overrides alone.
_replace_clobbering(k, kwds) ==
  [f \in Fields |->
     IF f \in DOMAIN kwds THEN CoerceKwargs(kwds)[f]
     ELSE IF f = "is_gaussian" THEN FALSE
     ELSE k[f]]

_replace(k, kwds) == namedtuple_replace(k, CoerceKwargs(kwds))

(***************************************************************************)
(* utils.revert_zipped(mat, shape): the axis-permutation helper.  `shape`  *)
(* is the shape of an input batch, (batch, spatial..., channels); the last *)
(* 2 * (number of spatial dimensions) axes of `mat` are the spatial axis   *)
(* pairs and the axes before them are batch axes.                          *)
(***************************************************************************)
SpatialDims(shape) == Len(shape) - 2

BatchAxes(mat, shape) == Len(mat.axes) - 2 * SpatialDims(shape)

\* The helper raises when `mat` has too few axes to hold the pairs.
revert_zipped_raises(mat, shape) ==
  ~mat.isNone /\ BatchAxes(mat, shape) < 0

revert_zipped(mat, shape) ==
  IF mat.isNone THEN mat
  ELSE LET n == SpatialDims(shape)
           b == BatchAxes(mat, shape)
       IN ndarray([i \in 1..Len(mat.axes) |->
                     IF i <= b THEN mat.axes[i]
                     ELSE LET j == (i - b - 1) \div 2
                              r == (i - b - 1) % 2
                          IN mat.axes[b + 2 * (n - 1 - j) + r + 1]])

(***************************************************************************)
(* Kernel.reverse                                                          *)
(***************************************************************************)
reverse_raises(k) ==
  \E f \in {"var1", "nngp", "var2", "ntk"} :
    revert_zipped_raises(k[f], k.shape1)

\* reverse keyed by `shape2` for the variances of the second batch (where
\* the helper accepts that key).
reverse_shape2(k) ==
  LET key == IF revert_zipped_raises(k.var2, k.shape2) THEN k.shape1
             ELSE k.shape2
  IN _replace(k, [var1 |-> revert_zipped(k.var1, k.shape1),
                  nngp |-> revert_zipped(k.nngp, k.shape1),
                  var2 |-> revert_zipped(k.var2, key),
                  ntk |-> revert_zipped(k.ntk, k.shape1),
                  is_reversed |-> ~k.is_reversed])

\* reverse that leaves `ntk` out of the arrays it permutes.
reverse_skips_ntk(k) ==
  _replace(k, [var1 |-> revert_zipped(k.var1, k.shape1),
               nngp |-> revert_zipped(k.nngp, k.shape1),
               var2 |-> revert_zipped(k.var2, k.shape1),
               is_reversed |-> ~k.is_reversed])

\* reverse that marks the result reversed instead of toggling the flag.
reverse_sets_flag(k) ==
  _replace(k, [var1 |-> revert_zipped(k.var1, k.shape1),
               nngp |-> revert_zipped(k.nngp, k.shape1),
               var2 |-> revert_zipped(k.var2, k.shape1),
               ntk |-> revert_zipped(k.ntk, k.shape1),
               is_reversed |-> TRUE])

\* reverse that leaves the flag out of the replacement.
reverse_keeps_flag(k) ==
  _replace(k, [var1 |-> revert_zipped(k.var1, k.shape1),
               nngp |-> revert_zipped(k.nngp, k.shape1),
               var2 |-> revert_zipped(k.var2, k.shape1),
               ntk |-> revert_zipped(k.ntk, k.shape1)])

\* reverse that rebuilds the record without its masks.
reverse_drops_masks(k) ==
  _replace(k, [var1 |-> revert_zipped(k.var1, k.shape1),
               nngp |-> revert_zipped(k.nngp, k.shape1),
               var2 |-> revert_zipped(k.var2, k.shape1),
               ntk |-> revert_zipped(k.ntk, k.shape1),
               is_reversed |-> ~k.is_reversed,
               mask1 |-> None,
               mask2 |-> None])

\* reverse that passes `marginal` and `cross` in each other's place.
reverse_swaps_marginal(k) ==
  _replace(k, [var1 |-> revert_zipped(k.var1, k.shape1),
               nngp |-> revert_zipped(k.nngp, k.shape1),
               var2 |-> revert_zipped(k.var2, k.shape1),
               ntk |-> revert_zipped(k.ntk, k.shape1),
               is_reversed |-> ~k.is_reversed,
               marginal |-> k.cross,
               cross |-> k.marginal])

reverse(k) ==
  _replace(k, [var1 |-> revert_zipped(k.var1, k.shape1),
               nngp |-> revert_zipped(k.nngp, k.shape1),
               var2 |-> revert_zipped(k.var2, k.shape1),
               ntk |-> revert_zipped(k.ntk, k.shape1),
               is_reversed |-> ~k.is_reversed])

(***************************************************************************)
(* Inputs                                                                  *)
(***************************************************************************)
Pairs == <<"H1", "H2", "W1", "W2", "D1", "D2">>

\* The fields the code of this module reads or writes; each is supplied
\* independently of the others.
Values(f) ==
  CASE f = "var1" -> {ndarray(<<"N1">>), ndarray(<<"N1">> \o Pairs)}
    [] f = "nngp" -> {ndarray(<<"N1", "N2">>), ndarray(<<"N1", "N2">> \o Pairs)}
    [] f = "var2" -> {None, ndarray(<<"N2">> \o Pairs)}
    [] f = "ntk" -> {ndarray(<<"N1", "N2">>), ndarray(<<"N1", "N2">> \o Pairs)}
    [] f = "is_reversed" -> BOOLEAN
    [] f = "marginal" -> {OVER_POINTS, PlainInt(0)}
    [] f = "cross" -> {NO, PlainInt(7)}
    [] f = "shape1" -> {<<2, 7>>, <<2, 4, 5, 6, 7>>}
    [] f = "shape2" -> {<<3, 7>>, <<3, 4, 5, 6, 7>>}

\* The fields the code only carries along are supplied together, as those
\* of an unmasked self-kernel at the input layer or as those of a masked
\* two-batch kernel further on (the second mask not matching `shape2`).
Carried == {"is_gaussian", "x1_is_x2", "is_input", "mask1", "mask2"}

CarriedValues ==
  {[is_gaussian |-> TRUE, x1_is_x2 |-> TRUE, is_input |-> TRUE,
    mask1 |-> None, mask2 |-> None],
   [is_gaussian |-> FALSE, x1_is_x2 |-> FALSE, is_input |-> FALSE,
    mask1 |-> ndarray(<<"N1", "H", "W", "D", "C">>),
    mask2 |-> ndarray(<<"N2", "H", "C">>)]}

\* The sets of fields a replacement names: none, one field, or the carried
\* fields together.
OverrideSets ==
  {{}} \cup {{f} : f \in Fields \ Carried} \cup {Carried}

\* Every assignment of input values to the fields of S.
RECURSIVE Kwargs(_)
Kwargs(S) ==
  IF S = {} THEN {<<>>}
  ELSE IF Carried \subseteq S
    THEN {cv @@ kw : cv \in CarriedValues, kw \in Kwargs(S \ Carried)}
  ELSE LET f == CHOOSE g \in S : TRUE
       IN {(f :> v) @@ kw : v \in Values(f), kw \in Kwargs(S \ {f})}

(***************************************************************************)
(* The state machine                                                       *)
(***************************************************************************)
Init ==
  \E args \in Kwargs(Fields) :
    /\ kwargs = args
    /\ ret = __new__(args)
    /\ self = __new__(args)
    /\ orig = __new__(args)
    /\ op = "construct"
    /\ outcome = "ok"
    /\ nrev = 0
    /\ lastMarginal = args.marginal
    /\ lastCross = args.cross

Replace ==
  \E S \in OverrideSets : \E kw \in Kwargs(S) :
    /\ kwargs' = kw
    /\ self' = ret
    /\ ret' = _replace(ret, kw)
    /\ orig' = _replace(ret, kw)
    /\ op' = "replace"
    /\ outcome' = "ok"
    /\ nrev' = 0
    /\ lastMarginal' = IF "marginal" \in S THEN kw.marginal ELSE lastMarginal
    /\ lastCross' = IF "cross" \in S THEN kw.cross ELSE lastCross

Reverse ==
  /\ nrev < MaxReverse
  /\ kwargs' = <<>>
  /\ self' = ret
  /\ op' = "reverse"
  /\ IF reverse_raises(ret)
       THEN /\ outcome' = "raised"
            /\ UNCHANGED <<ret, nrev>>
       ELSE /\ outcome' = "ok"
            /\ ret' = reverse(ret)
            /\ nrev' = nrev + 1
  /\ UNCHANGED <<orig, lastMarginal, lastCross>>

Next == Replace \/ Reverse

Spec == Init /\ [][Next]_vars

(***************************************************************************)
(* Properties                                                              *)
(***************************************************************************)
Arrays == {"var1", "nngp", "var2", "ntk"}

\* C1: in every reachable Kernel the stored `marginal` and `cross` are plain
\* ordinals, never enumeration members, and each equals the ordinal of the
\* value last supplied for it at construction or replacement.
StoredAsPlainOrdinals ==
  /\ ~isinstance_Marginalisation(ret.marginal)
  /\ ~isinstance_Marginalisation(ret.cross)
  /\ ret.marginal = PlainInt(lastMarginal.value)
  /\ ret.cross = PlainInt(lastCross.value)

\* A replacement supplied the member OVER_POINTS over a stored 0.
MemberSuppliedToReplace ==
  /\ op = "replace"
  /\ DOMAIN kwargs = {"marginal"}
  /\ kwargs.marginal = OVER_POINTS
  /\ self.marginal = PlainInt(0)
  /\ isinstance_Marginalisation(lastCross)

\* C2: a replacement returns a record equal to the receiver in every field
\* its overrides do not name, and the receiver is after the call the record
\* it was before it.
ReplacePreservesUntouched ==
  [][op' = "replace" =>
       /\ self' = ret
       /\ \A f \in Fields \ DOMAIN kwargs' : ret'[f] = ret[f]]_vars

\* A replacement changed the one field it named, on a receiver whose carried
\* fields are those of the masked kernel.
ReplaceChangedOneField ==
  /\ op = "replace"
  /\ DOMAIN kwargs = {"ntk"}
  /\ ret.ntk # self.ntk
  /\ ~self.is_gaussian
  /\ ~self.mask1.isNone

\* C3: after an even number of consecutive reverse() calls `var1`, `nngp`,
\* `var2`, `ntk` and `is_reversed` are what they were before the calls.
ReverseIsInvolution ==
  nrev % 2 = 0 => \A f \in Arrays \cup {"is_reversed"} : ret[f] = orig[f]

\* Two reversals that each permuted the axes of a record with three pairs.
ReversedTwice ==
  /\ nrev = 2
  /\ op = "reverse"
  /\ outcome = "ok"
  /\ SpatialDims(ret.shape1) = 3
  /\ self.nngp # ret.nngp
  /\ ~ret.var2.isNone

\* C4: a reverse() that returns toggles `is_reversed` whatever `marginal`,
\* `cross` and the shapes are, so that after n consecutive calls the flag
\* differs from its value before them exactly when n is odd.
ReverseTogglesFlag ==
  /\ (op = "reverse" /\ outcome = "ok") => ret.is_reversed = ~self.is_reversed
  /\ (ret.is_reversed # orig.is_reversed) <=> (nrev % 2 = 1)

\* Three reversals of a record with a low `marginal` and no spatial axes.
ToggledThreeTimes ==
  /\ nrev = 3
  /\ op = "reverse"
  /\ outcome = "ok"
  /\ ret.marginal = PlainInt(0)
  /\ SpatialDims(ret.shape1) = 0
  /\ ret.is_reversed

\* C5: a reverse() that returns changes only `var1`, `nngp`, `var2`, `ntk`
\* and `is_reversed`: the nine other fields of the result are the
\* receiver's, and the receiver is after the call the record it was before.
ReversePreservesOtherFields ==
  [][(op' = "reverse" /\ outcome' = "ok") =>
       /\ self' = ret
       /\ \A f \in Fields \ (Arrays \cup {"is_reversed"}) : ret'[f] = ret[f]]_vars

\* A reversal that permuted the arrays of a masked kernel.
ReversedMaskedKernel ==
  /\ op = "reverse"
  /\ outcome = "ok"
  /\ ret.var1 # self.var1
  /\ ~ret.mask1.isNone
  /\ ~ret.mask2.isNone
  /\ ret.shape1 # ret.shape2

Pairable(k) == k.marginal.value >= OVER_POINTS.value /\ k.cross.value >= NO.value

MarginalisationOrdered ==
  /\ Cardinality(Marginalisation) = 5
  /\ int(OVER_ALL) = PlainInt(0)
  /\ int(OVER_PIXELS_AND_POINTS) = PlainInt(1)
  /\ int(OVER_PIXELS) = PlainInt(2)
  /\ int(OVER_POINTS) = PlainInt(3)
  /\ int(NO) = PlainInt(4)
  /\ lt(OVER_ALL, OVER_PIXELS_AND_POINTS)
  /\ lt(OVER_PIXELS_AND_POINTS, OVER_PIXELS)
  /\ lt(OVER_PIXELS, OVER_POINTS)
  /\ lt(OVER_POINTS, NO)
  /\ \A a, b \in Marginalisation :
       int(a).value < int(b).value => lt(a, b) /\ ~eq(a, b)
  /\ \A m \in Marginalisation :
       /\ lt(m, ret.marginal) = lt(m, lastMarginal)
       /\ lt(ret.marginal, m) = lt(lastMarginal, m)
       /\ eq(m, ret.marginal) = eq(m, lastMarginal)
       /\ lt(m, ret.cross) = lt(m, lastCross)
       /\ lt(ret.cross, m) = lt(lastCross, m)
       /\ eq(m, ret.cross) = eq(m, lastCross)

\* A Kernel stores 3 and 4 for the members OVER_POINTS and NO supplied.
MembersStored ==
  /\ lastMarginal = OVER_POINTS
  /\ lastCross = NO
  /\ ret.marginal = PlainInt(3)
  /\ ret.cross = PlainInt(4)
  /\ op = "replace"

\* C9: construction and replacement always return: construction stores every
\* value as given apart from the cast of `marginal` and `cross`, replacement
\* stores every override likewise, and only reverse() raises.
NoValidation ==
  /\ op = "construct" =>
       /\ outcome = "ok"
       /\ \A f \in Fields \ {"marginal", "cross"} : ret[f] = kwargs[f]
       /\ ret.marginal = PlainInt(kwargs.marginal.value)
       /\ ret.cross = PlainInt(kwargs.cross.value)
  /\ op = "replace" =>
       /\ outcome = "ok"
       /\ \A f \in DOMAIN kwargs \ {"marginal", "cross"} : ret[f] = kwargs[f]
       /\ \A f \in DOMAIN kwargs \cap {"marginal", "cross"} :
            ret[f] = PlainInt(kwargs[f].value)
  /\ outcome = "raised" => op = "reverse"

\* A Kernel constructed from inconsistent values: reversed with a low
\* `marginal`, `cross` outside 0..4, `ntk` not shaped as `nngp`, a second
\* mask that does not match `shape2`.
InconsistentConstructed ==
  /\ op = "construct"
  /\ ret.is_reversed
  /\ ret.marginal = PlainInt(0)
  /\ ret.cross = PlainInt(7)
  /\ Shape(ret.ntk) # Shape(ret.nngp)
  /\ ~ret.mask2.isNone
  /\ Len(ret.mask2.axes) # Len(ret.shape2)

\* r is a with its last n axis pairs in reverse order: the axes before the
\* pairs in place, each pair keeping its two axes in their order.
PairOrderReversed(a, r, n) ==
  IF a.isNone THEN r.isNone
  ELSE /\ ~r.isNone
       /\ Len(r.axes) = Len(a.axes)
       /\ LET b == Len(a.axes) - 2 * n
          IN /\ \A i \in 1..b : r.axes[i] = a.axes[i]
             /\ \A p \in 1..n :
                  /\ r.axes[b + 2 * p - 1] = a.axes[b + 2 * (n - p) + 1]
                  /\ r.axes[b + 2 * p] = a.axes[b + 2 * (n - p) + 2]

\* C10: a reverse() that returns has reversed, in each of `var1`, `nngp`,
\* `var2` and `ntk`, the order of as many axis pairs as the receiver's
\* `shape1` has spatial dimensions; with no spatial dimension the four
\* arrays are unchanged and `is_reversed` is toggled all the same.
ReverseKeyedByShape1 ==
  (op = "reverse" /\ outcome = "ok") =>
    /\ \A f \in Arrays :
         PairOrderReversed(self[f], ret[f], Len(self.shape1) - 2)
    /\ Len(self.shape1) = 2 =>
         /\ \A f \in Arrays : ret[f] = self[f]
         /\ ret.is_reversed = ~self.is_reversed

\* Three pairs were reversed in the arrays of both batches although `shape2`
\* has no spatial dimension.
ThreePairsReversed ==
  /\ op = "reverse"
  /\ outcome = "ok"
  /\ Len(self.shape1) = 5
  /\ Len(self.shape2) = 2
  /\ self.nngp.axes = <<"N1", "N2", "H1", "H2", "W1", "W2", "D1", "D2">>
  /\ ret.nngp.axes = <<"N1", "N2", "D1", "D2", "W1", "W2", "H1", "H2">>
  /\ ret.var2.axes = <<"N2", "D1", "D2", "W1", "W2", "H1", "H2">>

====
